---- MODULE Spec2Model ----
(***************************************************************************)
(* A model of the event service of src/application.py: four HTTP routes    *)
(* over a MySQL store (tables events and debug_last_payload) and one       *)
(* process-wide variable, LAST_EVENT_PAYLOAD.                              *)
(*                                                                         *)
(* Spec      requests handled one at a time, each request one action, with *)
(*           every store interaction of a handler a possible fault point.  *)
(* SpecConc  two POST /events requests of one process interleaved at the   *)
(*           handler's accesses to shared state (store, global slot).      *)
(***************************************************************************)
EXTENDS Integers, Sequences, FiniteSets, TLC

VARIABLES
    environ,            \* os.environ restricted to the four DB_* variables
    eventsTable,        \* TRUE once table events exists in the store
    events,             \* rows of table events, in insertion order
    debugTable,         \* TRUE once table debug_last_payload exists
    debug_last_payload, \* rows of table debug_last_payload (none, or the row id=1)
    LAST_EVENT_PAYLOAD, \* the module global of line 15
    last,               \* the request handled last and its response
    pc,                 \* SpecConc: where each in-flight request stands
    req,                \* SpecConc: the payload of each request
    hist                \* SpecConc: order of the writes to slot and mirror

vars == <<environ, eventsTable, events, debugTable, debug_last_payload,
          LAST_EVENT_PAYLOAD, last, pc, req, hist>>

store == <<eventsTable, events, debugTable, debug_last_payload>>

conc == <<pc, req, hist>>

(***************************************************************************)
(* Bounds of the model.                                                    *)
(***************************************************************************)
\* POST /events is not offered once the events table holds MaxRows rows.
MaxRows == 3

(***************************************************************************)
(* JSON values and Python's view of them.                                  *)
(***************************************************************************)
JNull == [t |-> "null", s |-> ""]

JStr(s) == [t |-> "str", s |-> s]

NoFields == [k \in {} |-> JNull]

\* Python None as delivered by request.get_json() for the body `null`.
PyNone == [kind |-> "null", num |-> 0, elems |-> <<>>, fields |-> NoFields]

PyNumber(n) == [kind |-> "number", num |-> n, elems |-> <<>>, fields |-> NoFields]

PyList(xs) == [kind |-> "array", num |-> 0, elems |-> xs, fields |-> NoFields]

PyDict(f) == [kind |-> "object", num |-> 0, elems |-> <<>>, fields |-> f]

\* Python truthiness of a JSON value: `not v`.
Falsy(v) == v = JNull \/ v = JStr("")

\* `not payload` of line 43.
NotPayload(p) ==
    CASE p.kind = "null"   -> TRUE
      [] p.kind = "number" -> p.num = 0
      [] p.kind = "array"  -> p.elems = <<>>
      [] p.kind = "object" -> DOMAIN p.fields = {}

\* `field in payload` of line 43; "TypeError" when payload is not a container.
Contains(p, field) ==
    CASE p.kind = "object" -> IF field \in DOMAIN p.fields THEN "yes" ELSE "no"
      [] p.kind = "array"  -> IF \E i \in 1..Len(p.elems) : p.elems[i] = field
                              THEN "yes" ELSE "no"
      [] OTHER             -> "TypeError"

\* payload.get(key) of lines 144-148 on a dict: None when the key is absent.
Get(p, key) == IF key \in DOMAIN p.fields THEN p.fields[key] ELSE JNull

required_fields == <<"title", "date">>

required_vars == <<"DB_HOST", "DB_USER", "DB_PASSWORD", "DB_NAME">>

(***************************************************************************)
(* json.dumps(payload, ensure_ascii=False) of line 210, as the sequence of *)
(* the text's tokens (Python's separators are ", " and ": "; a dict is     *)
(* written in the order of its keys, here the order of KeyOrder).          *)
(***************************************************************************)
KeyOrder == <<"title", "date", "description", "image_url", "location">>

Quote(s) == <<"\"", s, "\"">>

DumpValue(v) == IF v.t = "null" THEN <<"null">> ELSE Quote(v.s)

RECURSIVE DumpList(_, _)
DumpList(xs, i) ==
    IF i > Len(xs) THEN <<>>
    ELSE (IF i > 1 THEN <<", ">> ELSE <<>>) \o Quote(xs[i]) \o DumpList(xs, i + 1)

RECURSIVE DumpItems(_, _, _)
DumpItems(f, i, first) ==
    IF i > Len(KeyOrder) THEN <<>>
    ELSE IF KeyOrder[i] \in DOMAIN f
         THEN (IF first THEN <<>> ELSE <<", ">>)
              \o Quote(KeyOrder[i]) \o <<": ">> \o DumpValue(f[KeyOrder[i]])
              \o DumpItems(f, i + 1, FALSE)
         ELSE DumpItems(f, i + 1, first)

json_dumps(p) ==
    CASE p.kind = "null"   -> <<"null">>
      [] p.kind = "number" -> <<ToString(p.num)>>
      [] p.kind = "array"  -> <<"[">> \o DumpList(p.elems, 1) \o <<"]">>
      [] p.kind = "object" -> <<"{">> \o DumpItems(p.fields, 1, TRUE) \o <<"}">>

(***************************************************************************)
(* Column date DATE of table events (line 125) and DATE_FORMAT (line 178). *)
(* A DATE is <<year, month, day>>; a text is the sequence of its character *)
(* codes, which is what ORDER BY compares.                                 *)
(***************************************************************************)
NoDate == <<0, 0, 0>>

\* MySQL's conversion of the string bound to column date by the INSERT.
StrToDate(s) ==
    CASE s = "2024-01-05" -> <<2024, 1, 5>>
      [] s = "2024-02-10" -> <<2024, 2, 10>>
      [] s = "2024-03-01" -> <<2024, 3, 1>>
      [] OTHER            -> NoDate

Digit(n) == 48 + n

Dash == 45

\* DATE_FORMAT(date, '%Y-%m-%d')
DATE_FORMAT(d) ==
    << Digit(d[1] \div 1000), Digit((d[1] \div 100) % 10),
       Digit((d[1] \div 10) % 10), Digit(d[1] % 10), Dash,
       Digit(d[2] \div 10), Digit(d[2] % 10), Dash,
       Digit(d[3] \div 10), Digit(d[3] % 10) >>

\* Text comparison of two strings of equal length (binary order of the codes).
RECURSIVE TextLeq(_, _, _)
TextLeq(a, b, i) ==
    IF i > Len(a) THEN TRUE
    ELSE IF a[i] < b[i] THEN TRUE
    ELSE IF a[i] > b[i] THEN FALSE
    ELSE TextLeq(a, b, i + 1)

(***************************************************************************)
(* Exceptions, by what str(e) carries.                                     *)
(***************************************************************************)
NoExc == [type |-> "", missing |-> <<>>, cause |-> ""]

Exc(type) == [type |-> type, missing |-> <<>>, cause |-> ""]

\* raise RuntimeError(f"Table creation failed: {str(e)}") of line 134
TableCreationFailed(e) ==
    [type |-> "RuntimeError", missing |-> e.missing, cause |-> e.type]

(***************************************************************************)
(* The store as one handler sees it: the tables, the connections the       *)
(* handler has opened (conns[h] counts the calls of close() on handle h),  *)
(* the number n of interactions with the store so far, the interaction     *)
(* that fails (fault, 0 for none), the pending exception and the value     *)
(* returned.                                                               *)
(***************************************************************************)
Ctx(fault) ==
    [eventsTable |-> eventsTable, events |-> events,
     debugTable |-> debugTable, debug_last_payload |-> debug_last_payload,
     conns |-> <<>>, n |-> 0, fault |-> fault, exc |-> NoExc, ret |-> <<>>]

Raise(c, e) == [c EXCEPT !.exc = e]

Failed(c) == c.exc # NoExc

\* Sequencing: G runs on c unless an exception is pending.
Then(c, G(_)) == IF Failed(c) THEN c ELSE G(c)

\* One interaction with the store; it fails when it is the fault-th one.
Interact(c, errtype) ==
    IF c.n + 1 = c.fault
    THEN [c EXCEPT !.n = @ + 1, !.exc = Exc(errtype)]
    ELSE [c EXCEPT !.n = @ + 1]

RECURSIVE MissingFrom(_)
MissingFrom(i) ==
    IF i > Len(required_vars) THEN <<>>
    ELSE (IF environ[required_vars[i]] \in {"absent", "empty"}
          THEN <<required_vars[i]>> ELSE <<>>) \o MissingFrom(i + 1)

NewHandle(c) == [c EXCEPT !.conns = Append(@, 0)]

\* lines 88-112
get_db_connection(c) ==
    IF MissingFrom(1) # <<>>
    THEN Raise(c, [type |-> "EnvironmentError", missing |-> MissingFrom(1),
                   cause |-> ""])
    ELSE Then(Interact(c, "ConnectionError"), NewHandle)

\* connection.close()
Close(c, h) == [c EXCEPT !.conns[h] = @ + 1]

\* The handle opened last: the one a function holds in `connection`.
CloseLast(c) == Close(c, Len(c.conns))

\* `with connection:` (line 117) and `try: ... finally: connection.close()`
\* (lines 154-164, 187-193, 199-214, 60-66): Body runs on the handle that c
\* has just opened, and the handle is closed however Body ends.
Using(c, Body(_)) == IF Failed(c) THEN c ELSE CloseLast(Body(c))

\* `except Exception as e: raise RuntimeError(...)` of lines 132-134
RaiseTableCreationFailed(c) ==
    IF Failed(c) THEN Raise(c, TableCreationFailed(c.exc)) ELSE c

TableCreated(c) == Interact([c EXCEPT !.eventsTable = TRUE], "MySQLError")

\* lines 118-130: CREATE TABLE IF NOT EXISTS events, then commit
CreateEventsTable(c) == Then(Interact(c, "MySQLError"), TableCreated)

\* lines 116-134
EnsureEventsTable(c) ==
    RaiseTableCreationFailed(Using(get_db_connection(c), CreateEventsTable))

\* lines 114-134: the handle of line 115 is rebound at line 117 and never
\* closed; the handle of line 117 is closed by the with statement.
create_db_table(c) == Then(get_db_connection(c), EnsureEventsTable)

DebugTableCreated(c) == Interact([c EXCEPT !.debugTable = TRUE], "MySQLError")

Commit(c) == Interact(c, "MySQLError")

\* lines 200-212. The REPLACE takes effect at the commit of line 212; the
\* column created_at (the store's clock) is not modelled.
ReplaceLastPayload(c, payload) ==
    Then(Then(Then(Interact(c, "MySQLError"), DebugTableCreated), Commit),
         LAMBDA x : [x EXCEPT !.debug_last_payload =
                        <<[id |-> 1, payload_json |-> json_dumps(payload)]>>])

\* lines 198-214
MirrorPayload(c, payload) ==
    Using(get_db_connection(c), LAMBDA x : ReplaceLastPayload(x, payload))

\* lines 196-214
write_last_payload_to_db(c, payload) ==
    Then(create_db_table(c), LAMBDA x : MirrorPayload(x, payload))

\* The check of line 150 written `is None`: an empty string passes.
MissingRequired_NoneOnly(title, date) == title = JNull \/ date = JNull

\* `if not title or not date` of line 150
MissingRequired(title, date) == Falsy(title) \/ Falsy(date)

\* The INSERT with description and image_url bound in the wrong order.
EventRow_Swapped(id, title, description, image_url, date, location) ==
    [id |-> id, title |-> title, description |-> image_url,
     image_url |-> description, date |-> StrToDate(date.s), location |-> location]

\* The INSERT of lines 157-161: the row the statement adds.
EventRow(id, title, description, image_url, date, location) ==
    [id |-> id, title |-> title, description |-> description,
     image_url |-> image_url, date |-> StrToDate(date.s), location |-> location]

\* The store refuses the INSERT: NOT NULL of lines 122 and 125, and a string
\* that is no date for column date (MySQL's default strict SQL mode).
InsertRefused(title, date) ==
    title = JNull \/ date = JNull \/ StrToDate(date.s) = NoDate

\* cursor.execute(sql, ...) of line 161
ExecuteInsert(c, title, date) ==
    IF InsertRefused(title, date)
    THEN Raise([c EXCEPT !.n = @ + 1], Exc("MySQLError"))
    ELSE Interact(c, "MySQLError")

\* lines 155-162: ALTER TABLE, INSERT, commit
InsertEvent(c, title, description, image_url, date, location) ==
    Then(Then(Then(Interact(c, "MySQLError"),
                   LAMBDA x : ExecuteInsert(x, title, date)),
              Commit),
         LAMBDA x : [x EXCEPT !.events =
                        Append(@, EventRow(Len(@) + 1, title, description,
                                           image_url, date, location))])

\* lines 144-164
InsertFields(c, payload) ==
    IF payload.kind # "object" THEN Raise(c, Exc("AttributeError"))
    ELSE LET title       == Get(payload, "title")
             date        == Get(payload, "date")
             description == Get(payload, "description")
             image_url   == Get(payload, "image_url")
             location    == Get(payload, "location")
         IN IF MissingRequired(title, date) THEN Raise(c, Exc("ValueError"))
            ELSE Using(get_db_connection(c),
                       LAMBDA x : InsertEvent(x, title, description, image_url,
                                              date, location))

\* lines 136-164
insert_data_into_db(c, payload) ==
    Then(create_db_table(c), LAMBDA x : InsertFields(x, payload))

\* ORDER BY id: the rows in insertion order.
OrderKey_ById(r) == <<Digit(r.id)>>

\* ORDER BY date of line 183: date is the alias of line 178, a text.
OrderKey(r) == DATE_FORMAT(r.date)

\* The orders in which the SELECT of lines 175-184 may return the rows:
\* every permutation sorted by the key (rows of equal key in any order).
SortedOrders(rows) ==
    { o \in [1..Len(rows) -> 1..Len(rows)] :
        /\ \A i, j \in 1..Len(rows) : i # j => o[i] # o[j]
        /\ \A i \in 1..Len(rows) - 1 :
              TextLeq(OrderKey(rows[o[i]]), OrderKey(rows[o[i + 1]]), 1) }

\* The columns selected at lines 176-181.
Selected(r) ==
    [title |-> r.title, date |-> DATE_FORMAT(r.date), image_url |-> r.image_url,
     description |-> r.description, location |-> r.location]

\* lines 188-191: execute and fetchall
SelectEvents(c, order) ==
    Then(Interact(c, "MySQLError"),
         LAMBDA x : [x EXCEPT !.ret =
                        [i \in 1..Len(order) |-> Selected(x.events[order[i]])]])

\* lines 167-193
fetch_data_from_db(c, order) ==
    Then(create_db_table(c),
         LAMBDA x : Using(get_db_connection(x),
                          LAMBDA y : SelectEvents(y, order)))

(***************************************************************************)
(* Responses.                                                              *)
(***************************************************************************)
\* jsonify(...), status
Json(status, key, text, detail, data) ==
    [status |-> status, json |-> TRUE, key |-> key, text |-> text,
     detail |-> detail, data |-> data]

\* What Flask answers when an exception leaves a view function: status 500
\* and its own "Internal Server Error" page, without the exception's text.
Unhandled ==
    [status |-> 500, json |-> FALSE, key |-> "", text |-> "Internal Server Error",
     detail |-> NoExc, data |-> <<>>]

NoResponse ==
    [status |-> 0, json |-> FALSE, key |-> "", text |-> "", detail |-> NoExc,
     data |-> <<>>]

\* lines 48-55 and 79-86. No function of the module raises NotImplementedError,
\* so the 501 branches are never taken.
ErrorResponse(text, e) == Json(500, "error", text, e, <<>>)

MissingFields ==
    Json(400, "error", "Missing required fields: 'title' and 'date'", NoExc, <<>>)

(***************************************************************************)
(* The routes.                                                             *)
(***************************************************************************)
\* line 23
health == Json(200, "status", "healthy", NoExc, <<>>)

\* The slot assigned only while it is unset: the first write wins.
AssignSlot_FirstWins(slot, payload) == IF slot = PyNone THEN payload ELSE slot

\* `LAST_EVENT_PAYLOAD = payload` of line 39
AssignSlot(slot, payload) == payload

\* Line 39 placed before line 36: the slot assigned whatever the write does.
SlotAfterMirror_AssignedFirst(c, slot, payload) == AssignSlot(slot, payload)

\* Lines 36-39: the assignment is reached when line 36 has returned.
SlotAfterMirror(c, slot, payload) ==
    IF Failed(c) THEN slot ELSE AssignSlot(slot, payload)

\* `all(field in payload for field in required_fields)` of line 43:
\* "yes", "no", or the exception that `in` raises.
RECURSIVE AllRequired(_, _)
AllRequired(payload, i) ==
    IF i > Len(required_fields) THEN "yes"
    ELSE IF Contains(payload, required_fields[i]) = "yes"
         THEN AllRequired(payload, i + 1)
         ELSE Contains(payload, required_fields[i])

\* lines 46-55: the response once insert_data_into_db has returned or raised
Created(c) ==
    [c |-> c,
     resp |-> IF Failed(c) THEN ErrorResponse("During event creation", c.exc)
              ELSE Json(201, "message", "Event created successfully", NoExc, <<>>)]

\* lines 42-55: what follows the assignment of the slot.
validate_and_insert(c, payload) ==
    IF NotPayload(payload) THEN [c |-> c, resp |-> MissingFields]
    ELSE IF AllRequired(payload, 1) = "TypeError"
    THEN [c |-> c, resp |-> ErrorResponse("During event creation", Exc("TypeError"))]
    ELSE IF AllRequired(payload, 1) = "no" THEN [c |-> c, resp |-> MissingFields]
    ELSE Created(insert_data_into_db(c, payload))

\* lines 36-55: c is the store as write_last_payload_to_db has left it
AfterMirror(c, payload) ==
    IF Failed(c)
    THEN [c |-> c, slot |-> SlotAfterMirror(c, LAST_EVENT_PAYLOAD, payload),
          mirror |-> "failed",
          resp |-> ErrorResponse("During event creation", c.exc)]
    ELSE [slot |-> SlotAfterMirror(c, LAST_EVENT_PAYLOAD, payload),
          mirror |-> "written"] @@ validate_and_insert(c, payload)

\* lines 26-55. body.valid: whether request.get_json() can parse the body
\* (it raises BadRequest otherwise).
create_event(body, fault) ==
    IF ~body.valid
    THEN [c |-> Ctx(fault), slot |-> LAST_EVENT_PAYLOAD, mirror |-> "not_run",
          resp |-> ErrorResponse("During event creation", Exc("BadRequest"))]
    ELSE AfterMirror(write_last_payload_to_db(Ctx(fault), body.payload),
                     body.payload)

\* line 62: the SELECT fails when table debug_last_payload does not exist.
SelectLastPayload(c) ==
    IF c.debugTable
    THEN Then(Interact(c, "MySQLError"),
              LAMBDA x : [x EXCEPT !.ret = x.debug_last_payload])
    ELSE Raise([c EXCEPT !.n = @ + 1], Exc("MySQLError"))

\* `row or {}` of line 64, with the columns selected at line 62
RowOrEmpty(rows) ==
    [i \in 1..Len(rows) |-> [payload_json |-> rows[i].payload_json]]

\* lines 64-66 and the view's lack of an except clause
DebugResponse(c) ==
    [c |-> c,
     resp |-> IF Failed(c) THEN Unhandled
              ELSE Json(200, "row", "", NoExc, RowOrEmpty(c.ret))]

\* lines 57-66
debug_last_event(fault) ==
    DebugResponse(Using(get_db_connection(Ctx(fault)), SelectLastPayload))

\* lines 76-86
DataResponse(c) ==
    [c |-> c,
     resp |-> IF Failed(c) THEN ErrorResponse("During data retrieval", c.exc)
              ELSE Json(200, "data", "", NoExc, c.ret)]

\* lines 69-86
get_data(order, fault) == DataResponse(fetch_data_from_db(Ctx(fault), order))

(***************************************************************************)
(* The requests the model sends.                                           *)
(***************************************************************************)
Launch == JStr("Launch")

ValidPayloads ==
    { PyDict([title |-> Launch, date |-> JStr("2024-01-05")]),
      PyDict([title |-> Launch, date |-> JStr("2024-03-01")]),
      PyDict([title |-> Launch, date |-> JStr("2024-02-10"),
              description |-> JStr("Keynote")]),
      PyDict([title |-> Launch, date |-> JStr("2024-01-05"),
              description |-> JStr("Keynote"), image_url |-> JStr("http://img"),
              location |-> JStr("Hall")]) }

EmptyValuePayloads ==
    { PyDict([title |-> JStr(""), date |-> JStr("2024-01-05")]),
      PyDict([title |-> Launch, date |-> JStr("")]),
      PyDict([title |-> JNull, date |-> JStr("2024-01-05")]),
      PyDict([title |-> Launch, date |-> JNull]) }

BadDatePayloads == { PyDict([title |-> Launch, date |-> JStr("soon")]) }

MissingKeyPayloads ==
    { PyDict(NoFields),
      PyDict([title |-> Launch]),
      PyDict([date |-> JStr("2024-01-05")]) }

NonObjectPayloads ==
    { PyNone, PyNumber(5), PyList(<<>>), PyList(<<"title", "date">>) }

Payloads ==
    ValidPayloads \cup EmptyValuePayloads \cup BadDatePayloads
        \cup MissingKeyPayloads \cup NonObjectPayloads

NoBody == [valid |-> FALSE, payload |-> PyNone]

Bodies == { [valid |-> TRUE, payload |-> p] : p \in Payloads } \cup { NoBody }

\* The requests that are also sent against a failing store.
FaultBodies ==
    { [valid |-> TRUE,
       payload |-> PyDict([title |-> Launch, date |-> JStr("2024-03-01")])],
      [valid |-> TRUE, payload |-> PyDict([title |-> Launch])],
      NoBody }

Procs == {"r1", "r2"}

NoHist ==
    [lastAssign |-> "", lastMirror |-> "", lastDone |-> "",
     overlapped |-> [p \in Procs |-> FALSE]]

(***************************************************************************)
(* Spec: one request at a time; the store is configured and reachable and  *)
(* refuses nothing but what the schema refuses.                            *)
(***************************************************************************)
Configured == [v \in {"DB_HOST", "DB_USER", "DB_PASSWORD", "DB_NAME"} |-> "set"]

NoRequest ==
    [route |-> "", body |-> NoBody, resp |-> NoResponse, conns |-> <<>>,
     mirror |-> "not_run"]

\* A fresh store and a fresh process.
Fresh ==
    /\ eventsTable = FALSE
    /\ events = <<>>
    /\ debugTable = FALSE
    /\ debug_last_payload = <<>>
    /\ LAST_EVENT_PAYLOAD = PyNone
    /\ last = NoRequest
    /\ pc = [p \in Procs |-> "idle"]
    /\ req = [p \in Procs |-> PyNone]
    /\ hist = NoHist

Init == environ = Configured /\ Fresh

\* The store after a handler has run.
StoreBecomes(c) ==
    /\ eventsTable' = c.eventsTable
    /\ events' = c.events
    /\ debugTable' = c.debugTable
    /\ debug_last_payload' = c.debug_last_payload

\* GET /health
Health ==
    /\ last' = [route |-> "GET /health", body |-> NoBody, resp |-> health,
                conns |-> <<>>, mirror |-> "not_run"]
    /\ UNCHANGED <<environ, store, LAST_EVENT_PAYLOAD, conc>>

\* POST /events with `body`, the fault-th interaction with the store failing.
Post(body, fault) ==
    \E r \in {create_event(body, fault)} :
        /\ Len(r.c.events) <= MaxRows
        /\ StoreBecomes(r.c)
        /\ LAST_EVENT_PAYLOAD' = r.slot
        /\ last' = [route |-> "POST /events", body |-> body, resp |-> r.resp,
                    conns |-> r.c.conns, mirror |-> r.mirror]
        /\ UNCHANGED <<environ, conc>>

\* GET /data
Data(order, fault) ==
    \E r \in {get_data(order, fault)} :
        /\ StoreBecomes(r.c)
        /\ last' = [route |-> "GET /data", body |-> NoBody, resp |-> r.resp,
                    conns |-> r.c.conns, mirror |-> "not_run"]
        /\ UNCHANGED <<environ, LAST_EVENT_PAYLOAD, conc>>

\* GET /debug_last_event
Debug(fault) ==
    \E r \in {debug_last_event(fault)} :
        /\ StoreBecomes(r.c)
        /\ last' = [route |-> "GET /debug_last_event", body |-> NoBody,
                    resp |-> r.resp, conns |-> r.c.conns, mirror |-> "not_run"]
        /\ UNCHANGED <<environ, LAST_EVENT_PAYLOAD, conc>>

PostEvents == \E body \in Bodies : Post(body, 0)

GetData == \E order \in SortedOrders(events) : Data(order, 0)

GetDebugLastEvent == Debug(0)

Next == Health \/ PostEvents \/ GetData \/ GetDebugLastEvent

Spec == Init /\ [][Next]_vars

(***************************************************************************)
(* SpecFault: one request at a time against a store that may be            *)
(* unconfigured (any of the four variables absent or empty, for the life   *)
(* of the process) and may fail at any one interaction of a request: the   *)
(* connect is refused, or a statement or a commit raises.                  *)
(***************************************************************************)
InitFault ==
    /\ environ \in [{"DB_HOST", "DB_USER", "DB_PASSWORD", "DB_NAME"}
                       -> {"absent", "empty", "set"}]
    /\ Fresh

PostEventsFault ==
    \E body \in FaultBodies :
      \E fault \in 0..create_event(body, 0).c.n : Post(body, fault)

GetDataFault ==
    \E order \in SortedOrders(events) :
      \E fault \in 0..get_data(order, 0).c.n : Data(order, fault)

GetDebugLastEventFault ==
    \E fault \in 0..debug_last_event(0).c.n : Debug(fault)

NextFault ==
    Health \/ PostEventsFault \/ GetDataFault \/ GetDebugLastEventFault

SpecFault == InitFault /\ [][NextFault]_vars

(***************************************************************************)
(* SpecConc: the requests of Procs are POST /events requests handled by    *)
(* threads of one process against a configured, reachable store. A handler *)
(* is cut where it touches shared state: the commit of the mirror write    *)
(* (line 36), the assignment of the global (line 39), and the rest (lines  *)
(* 42-55, with the commit of the INSERT). hist records which request       *)
(* wrote the mirror last, which assigned the slot last, which returned     *)
(* last, and which requests ran while another one was in flight.           *)
(***************************************************************************)
ConcPayloads ==
    { PyDict([title |-> Launch, date |-> JStr("2024-03-01")]),
      PyDict([title |-> Launch]),
      PyNone }

InFlight(p) == pc[p] # "idle"

\* line 34: a thread takes up a request
Receive(p) ==
    /\ pc[p] = "idle"
    /\ \E payload \in ConcPayloads : req' = [req EXCEPT ![p] = payload]
    /\ pc' = [pc EXCEPT ![p] = "mirror"]
    /\ hist' = [hist EXCEPT !.overlapped =
                   [q \in Procs |->
                      IF q = p THEN \E o \in Procs \ {p} : InFlight(o)
                      ELSE IF InFlight(q) THEN TRUE ELSE @[q]]]
    /\ UNCHANGED <<environ, store, LAST_EVENT_PAYLOAD, last>>

\* line 36
Mirror(p) ==
    /\ pc[p] = "mirror"
    /\ StoreBecomes(write_last_payload_to_db(Ctx(0), req[p]))
    /\ pc' = [pc EXCEPT ![p] = "assign"]
    /\ hist' = [hist EXCEPT !.lastMirror = p]
    /\ UNCHANGED <<environ, LAST_EVENT_PAYLOAD, last, req>>

\* line 39
Assign(p) ==
    /\ pc[p] = "assign"
    /\ LAST_EVENT_PAYLOAD' = AssignSlot(LAST_EVENT_PAYLOAD, req[p])
    /\ pc' = [pc EXCEPT ![p] = "finish"]
    /\ hist' = [hist EXCEPT !.lastAssign = p]
    /\ UNCHANGED <<environ, store, last, req>>

\* lines 42-55
Finish(p) ==
    /\ pc[p] = "finish"
    /\ \E r \in {validate_and_insert(Ctx(0), req[p])} :
          /\ Len(r.c.events) <= MaxRows
          /\ StoreBecomes(r.c)
          /\ last' = [route |-> "POST /events",
                      body |-> [valid |-> TRUE, payload |-> req[p]],
                      resp |-> r.resp, conns |-> <<>>, mirror |-> "written"]
    /\ pc' = [pc EXCEPT ![p] = "idle"]
    /\ hist' = [hist EXCEPT !.lastDone = p]
    /\ UNCHANGED <<environ, LAST_EVENT_PAYLOAD, req>>

NextConc == \E p \in Procs : Receive(p) \/ Mirror(p) \/ Assign(p) \/ Finish(p)

SpecConc == Init /\ [][NextConc]_vars

(***************************************************************************)
(* What the claims speak of.                                               *)
(***************************************************************************)
\* The step just taken handled a request on `route`.
Handled(route) == last'.route = route

IsPost == last.route = "POST /events" /\ last.body.valid

Payload == last.body.payload

\* The payload is a mapping that has the key.
HasKey(p, k) == p.kind = "object" /\ k \in DOMAIN p.fields

\* The value submitted for a key: null when the key is absent.
Submitted(p, k) == IF HasKey(p, k) THEN p.fields[k] ELSE JNull

Empty(v) == v = JNull \/ v = JStr("")

\* The calendar date a date string names.
CalendarDate(s) ==
    CASE s = "2024-01-05" -> <<2024, 1, 5>>
      [] s = "2024-02-10" -> <<2024, 2, 10>>
      [] s = "2024-03-01" -> <<2024, 3, 1>>
      [] OTHER            -> <<0, 0, 0>>

IsCalendarDate(v) == v.t = "str" /\ v.s \in {"2024-01-05", "2024-02-10", "2024-03-01"}

\* The row a payload asks for, as the id-th row of the table.
SubmittedRow(id, p) ==
    [id |-> id, title |-> Submitted(p, "title"),
     description |-> Submitted(p, "description"),
     image_url |-> Submitted(p, "image_url"),
     date |-> CalendarDate(Submitted(p, "date").s),
     location |-> Submitted(p, "location")]

\* The persisted debug row holds the serialization of p.
Mirrored(p) ==
    debug_last_payload = <<[id |-> 1, payload_json |-> json_dumps(p)]>>

\* A text YYYY-MM-DD read back as a date.
DateOfText(t) ==
    << (t[1] - 48) * 1000 + (t[2] - 48) * 100 + (t[3] - 48) * 10 + (t[4] - 48),
       (t[6] - 48) * 10 + (t[7] - 48),
       (t[9] - 48) * 10 + (t[10] - 48) >>

\* Chronological order of two dates.
DateLeq(a, b) ==
    \/ a[1] < b[1]
    \/ a[1] = b[1] /\ a[2] < b[2]
    \/ a[1] = b[1] /\ a[2] = b[2] /\ a[3] <= b[3]

\* A row of the table without its id, and a returned row with its date read back.
Values(r) ==
    [title |-> r.title, date |-> r.date, image_url |-> r.image_url,
     description |-> r.description, location |-> r.location]

Returned(x) == [x EXCEPT !.date = DateOfText(x.date)]

Count(seq, v, F(_)) == Cardinality({ i \in 1..Len(seq) : F(seq[i]) = v })

\* data holds every row of rows exactly once.
SameRows(data, rows) ==
    /\ Len(data) = Len(rows)
    /\ \A i \in 1..Len(rows) :
          Count(data, Values(rows[i]), Returned) = Count(rows, Values(rows[i]), Values)

IsPrefix(a, b) == Len(a) <= Len(b) /\ \A i \in 1..Len(a) : a[i] = b[i]

MissingVars == { v \in DOMAIN environ : environ[v] \in {"absent", "empty"} }

Named(e) == { e.missing[i] : i \in 1..Len(e.missing) }

\* The step mirrors p into the persisted debug row.
MirrorsNow(p) ==
    debug_last_payload' = <<[id |-> 1, payload_json |-> json_dumps(p)]>>

LacksRequiredKey(p) == ~(HasKey(p, "title") /\ HasKey(p, "date"))

(***************************************************************************)
(* The claims.                                                             *)
(***************************************************************************)
\* C1: every POST /events whose JSON payload lacks the key title or the key
\* date (a null or empty payload included) is answered 400, leaves the rows
\* of events as they were, and leaves the persisted debug row holding the
\* serialization of the payload. (Spec: the store is configured, reachable.)
C1_MissingKeyRejectedAndMirrored ==
    [][ (Handled("POST /events") /\ last'.body.valid
            /\ LacksRequiredKey(last'.body.payload))
        => /\ last'.resp.status = 400
           /\ events' = events
           /\ MirrorsNow(last'.body.payload) ]_vars

Acceptable(p) ==
    /\ ~LacksRequiredKey(p)
    /\ ~Empty(p.fields["title"])
    /\ IsCalendarDate(p.fields["date"])

C3_EmptyValueRejectedWith400 ==
    [][ (Handled("POST /events") /\ last'.body.valid
            /\ ~LacksRequiredKey(last'.body.payload)
            /\ (Empty(last'.body.payload.fields["title"])
                   \/ Empty(last'.body.payload.fields["date"])))
        => /\ last'.resp.status = 400
           /\ events' = events ]_vars

\* C4: when one of the four DB_* variables is absent or empty, a request to
\* POST /events, GET /data or GET /debug_last_event is answered 500 with a
\* JSON error body whose message names the missing variables.
C4_MissingConfigurationNamed ==
    (/\ MissingVars # {}
     /\ \/ IsPost
        \/ last.route \in {"GET /data", "GET /debug_last_event"})
    => /\ last.resp.status = 500
       /\ last.resp.json
       /\ Named(last.resp.detail) = MissingVars

\* C5: every connection a request has opened has been closed exactly once
\* when the request returns.
C5_EveryConnectionClosedOnce ==
    \A h \in 1..Len(last.conns) : last.conns[h] = 1

\* C6: GET /debug_last_event is answered 200 in every reachable state: with
\* the payload mirrored last as payload_json, and with {} when no payload has
\* been mirrored, a fresh store included.
C6_DebugAlways200 ==
    last.route = "GET /debug_last_event"
    => /\ last.resp.status = 200
       /\ last.resp.data =
             IF debug_last_payload = <<>> THEN <<>>
             ELSE <<[payload_json |-> json_dumps(LAST_EVENT_PAYLOAD)]>>

\* The returned rows are in non-decreasing order of date.
Chronological(data) ==
    \A i \in 1..Len(data) - 1 :
        DateLeq(DateOfText(data[i].date), DateOfText(data[i + 1].date))

\* C7: GET /data is answered 200 with a list that holds every row of events
\* exactly once, in non-decreasing order of date (the empty list for the
\* empty table), and leaves the table unchanged.
C7_DataSortedByDate ==
    [][ Handled("GET /data")
        => /\ last'.resp.status = 200
           /\ SameRows(last'.resp.data, events)
           /\ Chronological(last'.resp.data)
           /\ events' = events ]_vars

\* C7's case: rows inserted with dates 2024-01-05, 2024-03-01, 2024-02-10
\* have come back as 2024-01-05, 2024-02-10, 2024-03-01.
C7_ExampleReturned ==
    /\ last.route = "GET /data"
    /\ [i \in 1..Len(events) |-> events[i].date]
          = << <<2024, 1, 5>>, <<2024, 3, 1>>, <<2024, 2, 10>> >>
    /\ [i \in 1..Len(last.resp.data) |-> DateOfText(last.resp.data[i].date)]
          = << <<2024, 1, 5>>, <<2024, 2, 10>>, <<2024, 3, 1>> >>

RowsHaveTitleAndDate ==
    \A i \in 1..Len(events) :
        /\ ~Empty(events[i].title)
        /\ events[i].date # NoDate

\* C8: in every reachable state every row of events has a non-null,
\* non-empty title and date, and no step modifies or removes a row.
C8_RowsValidAndKept ==
    []RowsHaveTitleAndDate /\ [][IsPrefix(events, events')]_vars

\* C8's case: the table holds rows and a payload with an empty title has
\* just been turned away.
C8_EmptyTitleTurnedAway ==
    /\ IsPost /\ HasKey(Payload, "title") /\ HasKey(Payload, "date")
    /\ Payload.fields["title"] = JStr("")
    /\ last.resp.status # 201
    /\ Len(events) >= 1

Quiescent == \A p \in Procs : pc[p] = "idle"

\* C9: once all requests have returned, the slot holds the payload of the
\* request that assigned it last and the persisted debug row that of the
\* request that wrote it last; and when the request that returned last ran
\* while no other request was in flight, slot and debug row agree.
C9_LastWriteWins ==
    Quiescent
    => /\ hist.lastAssign # "" => LAST_EVENT_PAYLOAD = req[hist.lastAssign]
       /\ hist.lastMirror # "" => Mirrored(req[hist.lastMirror])
       /\ (hist.lastDone # "" /\ ~hist.overlapped[hist.lastDone])
             => Mirrored(LAST_EVENT_PAYLOAD)

\* C9's case: two overlapping requests have returned, and the slot holds
\* the payload of one while the persisted debug row holds that of the other.
C9_SlotAndMirrorDiffer ==
    /\ Quiescent
    /\ hist.lastAssign # "" /\ hist.lastMirror # ""
    /\ hist.lastAssign # hist.lastMirror
    /\ req[hist.lastAssign] # req[hist.lastMirror]
    /\ LAST_EVENT_PAYLOAD = req[hist.lastAssign]
    /\ Mirrored(req[hist.lastMirror])

\* C10: a POST /events whose mirror write fails is answered 500 and leaves
\* the rows of events, the persisted debug row and the in-memory slot as
\* they were.
C10_FailedMirrorChangesNothing ==
    [][ (Handled("POST /events") /\ last'.mirror = "failed")
        => /\ last'.resp.status = 500
           /\ events' = events
           /\ debug_last_payload' = debug_last_payload
           /\ LAST_EVENT_PAYLOAD' = LAST_EVENT_PAYLOAD ]_vars

\* C10's case: the mirror write of a valid payload has failed while slot
\* and debug row hold the payload of an earlier request.
C10_ValidPayloadMirrorFailed ==
    /\ IsPost /\ last.mirror = "failed"
    /\ Acceptable(Payload)
    /\ LAST_EVENT_PAYLOAD # Payload
    /\ Mirrored(LAST_EVENT_PAYLOAD)

====
